---- MODULE Spec2Model ----
(***************************************************************************)
(* A model of the GitHub code reader: the recursive listing of the Python  *)
(* files of a repository (github_reader.py), the explanation of a file by  *)
(* a chat endpoint (code_explainer.py) and the interactive driver          *)
(* (main.py).                                                              *)
(*                                                                         *)
(* Text is a sequence of one-character strings.  Two tokens stand for      *)
(* characters outside ASCII: "^2" is U+00B2 SUPERSCRIPT TWO (str.isdigit   *)
(* is True for it, int() rejects it) and "ar2" is U+0662 ARABIC-INDIC      *)
(* DIGIT TWO (a decimal digit for both).                                   *)
(***************************************************************************)
EXTENDS Integers, Sequences, FiniteSets, TLC

(***************************************************************************)
(* Bounds of the model.                                                    *)
(***************************************************************************)
\* the deepest chain of nested directories among the modelled repositories
MaxChain == 5
\* the number of lines the user types in one run
MaxInputs == 4

(***************************************************************************)
(* Program constants.                                                      *)
(***************************************************************************)
\* list_python_files(..., max_depth: int = 3, ...)
max_depth == 3

(***************************************************************************)
(* Text helpers: str.strip, str.lower, str.endswith, str.split, isdigit,   *)
(* int.                                                                    *)
(***************************************************************************)
Whitespace == {" ", "\t"}

RECURSIVE lstrip(_)
lstrip(s) ==
    IF s = <<>> THEN <<>>
    ELSE IF Head(s) \in Whitespace THEN lstrip(Tail(s)) ELSE s

RECURSIVE rstrip(_)
rstrip(s) ==
    IF s = <<>> THEN <<>>
    ELSE IF s[Len(s)] \in Whitespace THEN rstrip(SubSeq(s, 1, Len(s) - 1)) ELSE s

\* str.strip(): leading and trailing whitespace removed
strip(s) == rstrip(lstrip(s))

LowerChar(c) ==
    CASE c = "Q" -> "q"
      [] c = "Y" -> "y"
      [] c = "N" -> "n"
      [] OTHER -> c

\* str.lower()
lower(s) == [i \in 1..Len(s) |-> LowerChar(s[i])]

\* str.endswith(suffix)
endswith(s, suffix) ==
    /\ Len(s) >= Len(suffix)
    /\ SubSeq(s, Len(s) - Len(suffix) + 1, Len(s)) = suffix

\* str.startswith(prefix)
startswith(s, prefix) ==
    /\ Len(s) >= Len(prefix)
    /\ SubSeq(s, 1, Len(prefix)) = prefix

\* "/" in s
HasSlash(s) == \E i \in 1..Len(s) : s[i] = "/"

FirstSlash(s) ==
    CHOOSE i \in 1..Len(s) : s[i] = "/" /\ \A j \in 1..(i - 1) : s[j] # "/"

LastSlash(s) ==
    CHOOSE i \in 1..Len(s) : s[i] = "/" /\ \A j \in (i + 1)..Len(s) : s[j] # "/"

\* a variant of split1 that splits at the last "/" (rsplit), for the check
\* that the parsing property depends on where the line is split
split1_AtLastSlash(s) ==
    <<SubSeq(s, 1, LastSlash(s) - 1), SubSeq(s, LastSlash(s) + 1, Len(s))>>

\* s.split("/", 1) of a string that holds a "/": one split, at the first "/"
split1(s) ==
    <<SubSeq(s, 1, FirstSlash(s) - 1), SubSeq(s, FirstSlash(s) + 1, Len(s))>>

AsciiDigits == {"0", "1", "2", "3", "4", "5", "6", "7", "8", "9"}
\* the characters str.isdigit() accepts: decimal digits and digit-like
\* characters such as superscripts
DigitChars == AsciiDigits \cup {"ar2", "^2"}
\* the characters int() accepts as digits: Unicode decimal digits only
DecimalChars == AsciiDigits \cup {"ar2"}

\* str.isdigit(): non-empty and every character a digit character
isdigit(s) == Len(s) > 0 /\ \A i \in 1..Len(s) : s[i] \in DigitChars

DigitValue(c) ==
    CASE c = "0" -> 0 [] c = "1" -> 1 [] c = "2" -> 2 [] c = "3" -> 3
      [] c = "4" -> 4 [] c = "5" -> 5 [] c = "6" -> 6 [] c = "7" -> 7
      [] c = "8" -> 8 [] c = "9" -> 9 [] c = "ar2" -> 2

RECURSIVE DecimalValue(_)
DecimalValue(s) ==
    IF s = <<>> THEN 0
    ELSE 10 * DecimalValue(SubSeq(s, 1, Len(s) - 1)) + DigitValue(s[Len(s)])

\* int(s) of a string made of digit characters: the value, or ValueError
\* when a character is no decimal digit
int(s) ==
    IF \A i \in 1..Len(s) : s[i] \in DecimalChars
    THEN [ok |-> TRUE, value |-> DecimalValue(s)]
    ELSE [ok |-> FALSE, value |-> 0]

(***************************************************************************)
(* Repositories: what GET /repos/{owner}/{repo}/contents/{path} lists.  A  *)
(* repository maps each directory path to the entries of that directory,   *)
(* in the order the API returns them.                                      *)
(***************************************************************************)
Join(dir, name) == IF dir = <<>> THEN name ELSE dir \o <<"/">> \o name

Entry(type, path) == [type |-> type, path |-> path]

dot_py == <<".", "p", "y">>
a_py == <<"a">> \o dot_py
b_py == <<"b">> \o dot_py
m_py == <<"m">> \o dot_py
t_py == <<"t">> \o dot_py
z_py == <<"z">> \o dot_py
d_py == <<"d">> \o dot_py
l_py == <<"l">> \o dot_py
src == <<"s", "r", "c">>
sub == <<"s", "u", "b">>
README_md == <<"R", "E", "A", "D", "M", "E", ".", "m", "d">>

\* the repository of the end-to-end scenario: src/a.py, src/sub/b.py, README.md
ExampleRepo ==
    (<<>> :> <<Entry("dir", src), Entry("file", README_md)>>)
    @@ (src :> <<Entry("file", Join(src, a_py)), Entry("dir", Join(src, sub))>>)
    @@ (Join(src, sub) :> <<Entry("file", Join(Join(src, sub), b_py))>>)

\* a repository without Python files
NoPythonRepo == (<<>> :> <<Entry("file", README_md)>>)

\* entries that are not returned in sorted order, a directory whose name ends
\* with .py, a symlink and a submodule, and files whose names only resemble *.py
MixedRepo ==
    (<<>> :> << Entry("file", z_py),
                Entry("dir", d_py),
                Entry("symlink", l_py),
                Entry("file", <<"p", "y">>),
                Entry("file", a_py \o <<"c">>),
                Entry("submodule", <<"m">>),
                Entry("file", a_py) >>)
    @@ (d_py :> <<Entry("file", Join(d_py, b_py)), Entry("file", Join(d_py, <<"x">>))>>)

RECURSIVE ChainDir(_)
\* the directory d/d/.../d nested k deep
ChainDir(k) == IF k = 0 THEN <<>> ELSE Join(ChainDir(k - 1), <<"d">>)

\* n nested directories; every directory holds m.py, then (but the deepest) the
\* next directory, then t.py
ChainRepo(n) ==
    LET listing(k) ==
            <<Entry("file", Join(ChainDir(k), m_py))>>
            \o (IF k < n THEN <<Entry("dir", ChainDir(k + 1))>> ELSE <<>>)
            \o <<Entry("file", Join(ChainDir(k), t_py))>>
        paths == {ChainDir(k) : k \in 0..n}
    IN  [p \in paths |-> listing(CHOOSE k \in 0..n : ChainDir(k) = p)]

Repos == {ExampleRepo, NoPythonRepo, MixedRepo} \cup {ChainRepo(n) : n \in 1..MaxChain}

(***************************************************************************)
(* What the user can type and what the upstream services can answer.       *)
(***************************************************************************)
\* lines typed at the repository prompt
RepoLines ==
    { <<"a", "/", "b">>, <<" ", "a", "/", "b", " ">>, <<"a", "b">>, <<"/", "b">>,
      <<"a", "/">>, <<"a", "/", " ">>, <<"/">>, <<>>, <<"a", "/", "b", "/", "c">> }

\* lines typed at the selection prompt
ChoiceLines ==
    { <<"q">>, <<"Q">>, <<" ", "q">>, <<"0">>, <<"1">>, <<"2">>, <<" ", "2", "\t">>,
      <<"0", "2">>, <<"4">>, <<"1", "0">>, <<"a", "b", "c">>, <<"-", "1">>, <<>>,
      <<"ar2">>, <<"^2">> }

\* lines typed at the explanation prompt
AnswerLines == { <<"y">>, <<" ", "Y", "e", "s">>, <<"n">>, <<>>, <<"o", "y">> }

\* the texts a file or a chat reply can hold
Texts == { <<>>, <<" ", "\t">>, <<"x">>, <<" ", "x", " ">> }

\* HTTP status codes of the content API
Statuses == {200, 404, 500}

\* requests.Response.ok
ResponseOk(status) == status < 400

\* an unset environment variable (os.getenv gives None)
Unset == "<unset>"
EnvValues == {Unset, "", "secret"}

\* Python truthiness of an optional string
Truthy(v) == v # Unset /\ v # ""

NoText == [kind |-> "none", text |-> <<>>]

EmptyFileSentence == <<"The file appears to be empty; there is no code to explain.">>

VARIABLES
    repoTree,        \* the repository the content API serves
    GITHUB_TOKEN,    \* the environment variable GITHUB_TOKEN
    OPENAI_API_KEY,  \* the environment variable OPENAI_API_KEY
    pc,              \* where main() is
    explainer,       \* main's explainer: "None" or "CodeExplainer"
    repo_full_name,  \* prompt_repository_info's repo_full_name (the trimmed line)
    owner, repo,     \* main's owner and repo
    stack,           \* the active calls of list_python_files, innermost last
    requests,        \* the listings requested, in order: the path and the status answered
    listExc,         \* the exception list_python_files raised, or "none"
    python_files,    \* main's python_files
    choice,          \* main's choice (the trimmed selection line)
    selected_path,   \* main's selected_path
    content,         \* main's content
    explanation,     \* what the last explain_code call returned
    out,             \* the messages the last step printed
    net,             \* the read and chat requests the last step issued
    exit,            \* why main ended, or "running"
    inputs           \* the number of lines read from the user

vars == <<repoTree, GITHUB_TOKEN, OPENAI_API_KEY, pc, explainer, repo_full_name, owner, repo, stack,
          requests, listExc, python_files, choice, selected_path, content,
          explanation, out, net, exit, inputs>>

envVars == <<repoTree, GITHUB_TOKEN, OPENAI_API_KEY>>
listVars == <<stack, requests, listExc, python_files>>
fileVars == <<choice, selected_path, content, explanation>>

Init ==
    /\ repoTree \in Repos
    /\ GITHUB_TOKEN \in EnvValues
    /\ OPENAI_API_KEY \in EnvValues
    /\ pc = "client_init"
    /\ explainer = "None"
    /\ repo_full_name = <<>>
    /\ owner = <<>>
    /\ repo = <<>>
    /\ stack = <<>>
    /\ requests = <<>>
    /\ listExc = "none"
    /\ python_files = <<>>
    /\ choice = <<>>
    /\ selected_path = <<>>
    /\ content = <<>>
    /\ explanation = NoText
    /\ out = <<>>
    /\ net = <<>>
    /\ exit = "running"
    /\ inputs = 0

(***************************************************************************)
(* main: the two clients.                                                  *)
(***************************************************************************)
\* GitHubClient.__init__ with token = None: the exception it raises, or "none"
GitHubClientInit(envToken) == IF Truthy(envToken) THEN "none" ELSE "ValueError"

\* main, lines 33-42: the banner and the GitHub client
NewGitHubClient ==
    /\ pc = "client_init"
    /\ IF GitHubClientInit(GITHUB_TOKEN) = "ValueError"
       THEN /\ out' = <<"banner", "Configuration error", "check GITHUB_TOKEN">>
            /\ pc' = "done"
            /\ exit' = "no_token"
       ELSE /\ out' = <<"banner">>
            /\ pc' = "explainer_init"
            /\ exit' = exit
    /\ net' = <<>>
    /\ UNCHANGED <<envVars, explainer, repo_full_name, owner, repo, listVars, fileVars, inputs>>

\* CodeExplainer.__init__ with api_key = None: the exception it raises, or
\* "none"; openai is what the OpenAI constructor does
CodeExplainerInit(envKey, openai) ==
    IF ~Truthy(envKey) THEN "LLMConfigError"
    ELSE IF openai = "raises" THEN "Exception"
    ELSE "none"

\* a variant of ExplainerAfterInit in which only a missing key disables the
\* explainer, for the check that the property depends on the second handler
ExplainerAfterInit_OnlyConfigError(exc) ==
    IF exc = "LLMConfigError" THEN "None" ELSE "CodeExplainer"

\* main, lines 45-54: what explainer is bound to after the try statement
ExplainerAfterInit(exc) == IF exc = "none" THEN "CodeExplainer" ELSE "None"

\* main, lines 44-54: the optional explainer
NewCodeExplainer ==
    /\ pc = "explainer_init"
    /\ \E openai \in {"ok", "raises"} :
         LET exc == CodeExplainerInit(OPENAI_API_KEY, openai)
         IN  /\ explainer' = ExplainerAfterInit(exc)
             /\ out' = CASE exc = "LLMConfigError" ->
                              <<"LLM not configured", "explanations disabled">>
                         [] exc = "Exception" ->
                              <<"Could not initialize LLM explainer", "continuing without LLM">>
                         [] OTHER -> <<>>
    /\ pc' = "prompt_repo"
    /\ net' = <<>>
    /\ UNCHANGED <<envVars, repo_full_name, owner, repo, listVars, fileVars, exit, inputs>>

(***************************************************************************)
(* main: the repository prompt.                                            *)
(***************************************************************************)
\* prompt_repository_info, lines 13-26: one pass of its loop on one line
prompt_repository_info(line) ==
    LET full == strip(line) IN
    IF ~HasSlash(full)
    THEN [repo_full_name |-> full, accepted |-> FALSE, owner |-> <<>>, repo |-> <<>>,
          msg |-> "Invalid format. Please use 'owner/repo'."]
    ELSE LET parts == split1(full) IN
         IF parts[1] = <<>> \/ parts[2] = <<>>
         THEN [repo_full_name |-> full, accepted |-> FALSE, owner |-> <<>>, repo |-> <<>>,
               msg |-> "Invalid format. Owner or repo missing."]
         ELSE [repo_full_name |-> full, accepted |-> TRUE, owner |-> parts[1],
               repo |-> parts[2], msg |-> ""]

\* a call of list_python_files that has not run yet
NewCall(path, depth) ==
    [path |-> path, _current_depth |-> depth, state |-> "enter",
     entries |-> <<>>, i |-> 1, python_files |-> <<>>]

\* main, lines 56-59: one line at the repository prompt; an accepted line
\* leads to the call of list_python_files(owner, repo)
PromptRepositoryInfo ==
    /\ pc = "prompt_repo"
    /\ inputs < MaxInputs
    /\ \E line \in RepoLines :
         LET r == prompt_repository_info(line) IN
         /\ repo_full_name' = r.repo_full_name
         /\ IF r.accepted
            THEN /\ owner' = r.owner
                 /\ repo' = r.repo
                 /\ out' = <<>>
                 /\ pc' = "listing"
                 /\ stack' = <<NewCall(<<>>, 0)>>
            ELSE /\ out' = <<r.msg>>
                 /\ UNCHANGED <<owner, repo, pc, stack>>
    /\ inputs' = inputs + 1
    /\ net' = <<>>
    /\ UNCHANGED <<envVars, explainer, requests, listExc, python_files, fileVars, exit>>

(***************************************************************************)
(* GitHubClient.list_python_files, one step per action.                    *)
(***************************************************************************)
\* what the content API can answer to the listing of a directory
ListResponses(path) ==
    {[status |-> st, kind |-> "list",
      data |-> IF st = 200 THEN repoTree[path] ELSE <<>>] : st \in Statuses}

\* a variant of list_repository_files that answers a failed request with an
\* empty listing, for the check that the property depends on the raise
list_repository_files_Swallow(response) ==
    IF ~ResponseOk(response.status) THEN [exc |-> "none", entries |-> <<>>]
    ELSE [exc |-> "none", entries |-> response.data]

\* list_repository_files, lines 55-68, on the response
list_repository_files(response) ==
    IF response.status = 404 THEN [exc |-> "ValueError", entries |-> <<>>]
    ELSE IF ~ResponseOk(response.status) THEN [exc |-> "RuntimeError", entries |-> <<>>]
    ELSE IF response.kind = "dict" THEN [exc |-> "none", entries |-> <<response.data>>]
    ELSE [exc |-> "none", entries |-> response.data]

Top == stack[Len(stack)]

\* a variant of TooDeep that is off by one, for the check that the property
\* depends on the depth test
TooDeep_OffByOne(depth) == depth >= max_depth

\* line 115: the depth test of list_python_files
TooDeep(depth) == depth > max_depth

\* a variant of IsPythonFile without the test of the type, for the check
\* that the property depends on it
IsPythonFile_AnyType(entry) == endswith(entry.path, dot_py)

\* line 125: the entry is a Python file
IsPythonFile(entry) == entry.type = "file" /\ endswith(entry.path, dot_py)

\* a variant of Extend that puts the files of the directory first, for the
\* check that the property depends on the order
Extend_Prepend(acc, result) == result \o acc

\* lines 128-136: python_files.extend(result of the recursive call)
Extend(acc, result) == acc \o result

\* the stack once the innermost call returns result: the caller extends its
\* list and moves to its next entry
StackAfterReturn(result) ==
    LET caller == stack[Len(stack) - 1] IN
    SubSeq(stack, 1, Len(stack) - 2)
    \o <<[caller EXCEPT !.python_files = Extend(caller.python_files, result),
                        !.i = caller.i + 1]>>

\* the innermost call returns result, to its caller or to main (line 59)
Return(result) ==
    IF Len(stack) > 1
    THEN /\ stack' = StackAfterReturn(result)
         /\ UNCHANGED <<python_files, pc>>
    ELSE /\ stack' = <<>>
         /\ python_files' = result
         /\ pc' = "listed"

\* lines 115-116: a call deeper than max_depth returns [] at once
ListPrune ==
    /\ pc = "listing"
    /\ Top.state = "enter"
    /\ TooDeep(Top._current_depth)
    /\ Return(<<>>)
    /\ out' = <<>>
    /\ net' = <<>>
    /\ UNCHANGED <<envVars, explainer, repo_full_name, owner, repo, requests, listExc, fileVars, exit, inputs>>

\* line 118 when the request fails: the exception leaves every active call
\* (none of them handles it) and reaches main, line 60
ListRaise(exc) ==
    /\ stack' = <<>>
    /\ listExc' = exc
    /\ pc' = "listed"
    /\ UNCHANGED python_files

\* lines 118-119: the call requests the listing of its path
ListRequest ==
    /\ pc = "listing"
    /\ Top.state = "enter"
    /\ ~TooDeep(Top._current_depth)
    /\ \E response \in ListResponses(Top.path) :
         LET r == list_repository_files(response) IN
         /\ requests' = Append(requests, [path |-> Top.path, status |-> response.status])
         /\ IF r.exc # "none"
            THEN ListRaise(r.exc)
            ELSE /\ stack' = [stack EXCEPT ![Len(stack)] =
                                 [@ EXCEPT !.state = "loop", !.entries = r.entries]]
                 /\ UNCHANGED <<listExc, python_files, pc>>
    /\ out' = <<>>
    /\ net' = <<>>
    /\ UNCHANGED <<envVars, explainer, repo_full_name, owner, repo, fileVars, exit, inputs>>

\* lines 121-136: the next entry of the listing
ListEntry ==
    /\ pc = "listing"
    /\ Top.state = "loop"
    /\ Top.i <= Len(Top.entries)
    /\ LET entry == Top.entries[Top.i] IN
         IF IsPythonFile(entry)
         THEN stack' = [stack EXCEPT ![Len(stack)] =
                           [@ EXCEPT !.python_files = Append(@, entry.path), !.i = @ + 1]]
         ELSE IF entry.type = "dir"
         THEN stack' = Append(stack, NewCall(entry.path, Top._current_depth + 1))
         ELSE stack' = [stack EXCEPT ![Len(stack)] = [@ EXCEPT !.i = @ + 1]]
    /\ out' = <<>>
    /\ net' = <<>>
    /\ UNCHANGED <<envVars, pc, explainer, repo_full_name, owner, repo, requests, listExc, python_files,
                   fileVars, exit, inputs>>

\* line 138: the call returns its list
ListReturn ==
    /\ pc = "listing"
    /\ Top.state = "loop"
    /\ Top.i > Len(Top.entries)
    /\ Return(Top.python_files)
    /\ out' = <<>>
    /\ net' = <<>>
    /\ UNCHANGED <<envVars, explainer, repo_full_name, owner, repo, requests, listExc, fileVars, exit, inputs>>

\* main, lines 60-70: the outcome of the listing
AfterListing ==
    /\ pc = "listed"
    /\ IF listExc # "none"
       THEN /\ out' = <<"Error while listing files">>
            /\ pc' = "done"
            /\ exit' = "list_error"
       ELSE IF python_files = <<>>
       THEN /\ out' = <<"No Python files (.py) found">>
            /\ pc' = "done"
            /\ exit' = "no_files"
       ELSE /\ out' = <<"Found Python files", "numbered list">>
            /\ pc' = "browsing"
            /\ exit' = exit
    /\ net' = <<>>
    /\ UNCHANGED <<envVars, explainer, repo_full_name, owner, repo, listVars, fileVars, inputs>>

(***************************************************************************)
(* main: the selection loop.                                               *)
(***************************************************************************)
\* what the content API can answer to the request of a file; text is the
\* text of the payload (its content field, base64-decoded when so encoded)
ReadResponses ==
    {[status |-> st, text |-> IF st = 200 THEN t ELSE <<>>] : st \in Statuses, t \in Texts}

\* read_file_content, lines 84-100, on the response
read_file_content(response) ==
    IF response.status = 404 THEN [exc |-> "ValueError", text |-> <<>>]
    ELSE IF ~ResponseOk(response.status) THEN [exc |-> "RuntimeError", text |-> <<>>]
    ELSE [exc |-> "none", text |-> response.text]

\* main, lines 77-88: what the trimmed line is taken for, with n listed files
ChoiceKind(c, n) ==
    IF lower(c) = <<"q">> THEN "quit"
    ELSE IF ~isdigit(c) THEN "not_a_number"
    ELSE IF ~int(c).ok THEN "ValueError"
    ELSE IF int(c).value < 1 \/ int(c).value > n THEN "out_of_range"
    ELSE "selected"

\* a variant of PcAfterRead in which a failed read ends the loop, for the
\* check that the property depends on the handler
PcAfterRead_FailureEnds(exc) ==
    IF exc # "none" THEN "done"
    ELSE IF explainer = "None" THEN "browsing"
    ELSE "explain_prompt"

\* main, lines 92-106: where the loop goes after read_file_content, which
\* raised exc or returned
PcAfterRead(exc) ==
    IF exc # "none" THEN "browsing"
    ELSE IF explainer = "None" THEN "browsing"
    ELSE "explain_prompt"

\* main, line 90: the path of the selected file
SelectedPath(c) == python_files[int(c).value]

\* main, lines 72-106: one line at the selection prompt, up to the next prompt
Choice ==
    /\ pc = "browsing"
    /\ inputs < MaxInputs
    /\ \E line \in ChoiceLines :
         LET c == strip(line)
             kind == ChoiceKind(c, Len(python_files))
         IN  /\ choice' = c
             /\ CASE kind = "quit" ->
                       /\ out' = <<"Goodbye!">>
                       /\ pc' = "done"
                       /\ exit' = "quit"
                       /\ net' = <<>>
                       /\ UNCHANGED <<selected_path, content>>
                  [] kind = "not_a_number" ->
                       /\ out' = <<"Please enter a valid number or 'q' to quit.">>
                       /\ net' = <<>>
                       /\ UNCHANGED <<pc, exit, selected_path, content>>
                  [] kind = "ValueError" ->
                       /\ out' = <<"Traceback">>
                       /\ pc' = "crashed"
                       /\ exit' = "ValueError"
                       /\ net' = <<>>
                       /\ UNCHANGED <<selected_path, content>>
                  [] kind = "out_of_range" ->
                       /\ out' = <<"Please choose a number between 1 and n.">>
                       /\ net' = <<>>
                       /\ UNCHANGED <<pc, exit, selected_path, content>>
                  [] kind = "selected" ->
                       /\ selected_path' = SelectedPath(c)
                       /\ net' = <<"read">>
                       /\ exit' = exit
                       /\ \E response \in ReadResponses :
                            LET read == read_file_content(response) IN
                            /\ pc' = PcAfterRead(read.exc)
                            /\ IF read.exc # "none"
                               THEN /\ out' = <<"Error while reading file">>
                                    /\ content' = content
                               ELSE /\ out' = <<"File:", "content">>
                                    /\ content' = read.text
    /\ inputs' = inputs + 1
    /\ UNCHANGED <<envVars, explainer, repo_full_name, owner, repo, listVars, explanation>>

\* what the chat endpoint can do with a request
ChatOutcomes ==
    {[kind |-> "error", text |-> <<>>], [kind |-> "no_content", text |-> <<>>]}
    \cup {[kind |-> "reply", text |-> t] : t \in Texts}

\* a variant of explain_code that tests the code without trimming it, for
\* the check that the property depends on the trimming
explain_code_NoStrip(code, chat) ==
    IF code = <<>>
    THEN [net |-> <<>>, exc |-> "none", text |-> EmptyFileSentence]
    ELSE IF chat.kind = "error"
    THEN [net |-> <<"chat">>, exc |-> "APIError", text |-> <<>>]
    ELSE IF chat.kind = "no_content"
    THEN [net |-> <<"chat">>, exc |-> "AttributeError", text |-> <<>>]
    ELSE [net |-> <<"chat">>, exc |-> "none", text |-> strip(chat.text)]

\* explain_code, lines 45-73: the requests it issues, the exception it
\* raises and the text it returns
explain_code(code, chat) ==
    IF strip(code) = <<>>
    THEN [net |-> <<>>, exc |-> "none", text |-> EmptyFileSentence]
    ELSE IF chat.kind = "error"
    THEN [net |-> <<"chat">>, exc |-> "APIError", text |-> <<>>]
    ELSE IF chat.kind = "no_content"
    THEN [net |-> <<"chat">>, exc |-> "AttributeError", text |-> <<>>]
    ELSE [net |-> <<"chat">>, exc |-> "none", text |-> strip(chat.text)]

\* main, line 112: the answer asks for an explanation
WantsExplanation(answer) == startswith(lower(strip(answer)), <<"y">>)

\* main, lines 108-122: one line at the explanation prompt
ExplainAnswer ==
    /\ pc = "explain_prompt"
    /\ inputs < MaxInputs
    /\ \E answer \in AnswerLines, chat \in ChatOutcomes :
         IF WantsExplanation(answer)
         THEN LET r == explain_code(content, chat) IN
              /\ net' = r.net
              /\ IF r.exc = "none"
                 THEN /\ explanation' = [kind |-> "text", text |-> r.text]
                      /\ out' = <<"Requesting explanation", "LLM explanation:">>
                 ELSE /\ explanation' = [kind |-> "raised", text |-> <<>>]
                      /\ out' = <<"Requesting explanation", "Error while getting LLM explanation">>
         ELSE /\ net' = <<>>
              /\ out' = <<>>
              /\ explanation' = NoText
    /\ pc' = "browsing"
    /\ inputs' = inputs + 1
    /\ UNCHANGED <<envVars, explainer, repo_full_name, owner, repo, listVars, choice, selected_path,
                   content, exit>>

Next ==
    \/ NewGitHubClient
    \/ NewCodeExplainer
    \/ PromptRepositoryInfo
    \/ ListPrune
    \/ ListRequest
    \/ ListEntry
    \/ ListReturn
    \/ AfterListing
    \/ Choice
    \/ ExplainAnswer

Spec == Init /\ [][Next]_vars

(***************************************************************************)
(* Properties.  The definitions below state what is expected of the        *)
(* program, independently of the way the program computes it.              *)
(***************************************************************************)
Range(s) == {s[i] : i \in 1..Len(s)}

NoDuplicates(s) == \A i, j \in 1..Len(s) : i # j => s[i] # s[j]

\* the depth of a directory: 0 for the root, else the number of its components
DepthOf(path) ==
    IF path = <<>> THEN 0
    ELSE 1 + Cardinality({i \in 1..Len(path) : path[i] = "/"})

\* the depth of the deepest directory of a repository
TreeDepth(tree) ==
    CHOOSE d \in {DepthOf(p) : p \in DOMAIN tree} :
        \A p \in DOMAIN tree : DepthOf(p) <= d

EndsDotPy(path) ==
    /\ Len(path) >= 3
    /\ path[Len(path) - 2] = "."
    /\ path[Len(path) - 1] = "p"
    /\ path[Len(path)] = "y"

\* the paths of the files *.py listed in the directories dirs of a repository
PythonFilesIn(tree, dirs) ==
    UNION { { e.path : e \in {x \in Range(tree[p]) : x.type = "file" /\ EndsDotPy(x.path)} }
            : p \in dirs }

\* list_python_files has returned to main
ListingSucceeded ==
    /\ pc \in {"listed", "browsing", "explain_prompt", "done", "crashed"}
    /\ exit # "no_token"
    /\ listExc = "none"

\* C1: for a repository no deeper than max_depth, a listing without a failed
\* request returns the path of every entry of type file that ends with .py,
\* no other path, and no path twice.
C1_EveryPythonFileOnce ==
    (ListingSucceeded /\ TreeDepth(repoTree) <= max_depth)
    => /\ Range(python_files) = PythonFilesIn(repoTree, DOMAIN repoTree)
       /\ NoDuplicates(python_files)

\* a repository exactly max_depth deep, with other entries than Python files,
\* has been listed
C1_Witness ==
    /\ ListingSucceeded
    /\ TreeDepth(repoTree) = max_depth
    /\ Len(python_files) >= 2
    /\ Join(ChainDir(max_depth), t_py) \in Range(python_files)

\* C2 (states): the depth of a call is the number of calls around it, 0 for the
\* initial one, and the depth of its directory; no listing is requested for a
\* directory deeper than max_depth; the listing of a repository deeper than
\* max_depth succeeds and returns exactly the Python files of the directories
\* of depth <= max_depth.
C2_Pruned ==
    /\ \A k \in 1..Len(stack) :
          stack[k]._current_depth = k - 1 /\ DepthOf(stack[k].path) = k - 1
    /\ \A i \in 1..Len(requests) : DepthOf(requests[i].path) <= max_depth
    /\ (ListingSucceeded /\ TreeDepth(repoTree) > max_depth)
       => Range(python_files) =
             PythonFilesIn(repoTree, {p \in DOMAIN repoTree : DepthOf(p) <= max_depth})

\* C2 (steps): a call deeper than max_depth returns at once, without a request
\* and without an exception, and leaves the list of its caller as it is.
C2_PruneStep ==
    (pc = "listing" /\ stack[Len(stack)].state = "enter"
       /\ stack[Len(stack)]._current_depth > max_depth)
    => /\ requests' = requests
       /\ listExc' = "none"
       /\ pc' = "listing"
       /\ Len(stack') = Len(stack) - 1
       /\ stack'[Len(stack')].python_files = stack[Len(stack) - 1].python_files

\* C2: pruning is per branch, counted from depth 0, and never an error.
C2_PruningPerBranch == [](C2_Pruned) /\ [][C2_PruneStep]_vars

\* a repository deeper than max_depth has been listed: a file below the bound
\* is missing, the file listed after the pruned directory is there
C2_Witness ==
    /\ ListingSucceeded
    /\ TreeDepth(repoTree) > max_depth
    /\ Join(ChainDir(max_depth + 1), m_py) \notin Range(python_files)
    /\ Join(ChainDir(max_depth + 1), m_py) \in PythonFilesIn(repoTree, DOMAIN repoTree)
    /\ python_files[Len(python_files)] = t_py
    /\ Join(ChainDir(max_depth), t_py) \in Range(python_files)

RECURSIVE FilesUnder(_, _, _)
RECURSIVE FilesOfEntries(_, _, _)
\* the depth-first pre-order of the Python files under a directory, the
\* entries of every directory taken in the order of its listing
FilesUnder(tree, path, depth) ==
    IF depth > max_depth THEN <<>> ELSE FilesOfEntries(tree, tree[path], depth)

FilesOfEntries(tree, entries, depth) ==
    IF entries = <<>> THEN <<>>
    ELSE LET e == Head(entries)
             here == IF e.type = "file" /\ EndsDotPy(e.path) THEN <<e.path>>
                     ELSE IF e.type = "dir" THEN FilesUnder(tree, e.path, depth + 1)
                     ELSE <<>>
         IN  here \o FilesOfEntries(tree, Tail(entries), depth)

\* C3: the returned sequence is the depth-first pre-order of the repository,
\* every listing in the order the API returned it; the repository of src/a.py,
\* src/sub/b.py and README.md gives exactly [src/a.py, src/sub/b.py].
C3_PreOrder ==
    ListingSucceeded
    => /\ python_files = FilesUnder(repoTree, <<>>, 0)
       /\ repoTree = ExampleRepo
          => python_files = << <<"s", "r", "c", "/", "a", ".", "p", "y">>,
                               <<"s", "r", "c", "/", "s", "u", "b", "/", "b", ".", "p", "y">> >>

\* the repository whose listing is not sorted has been listed
C3_Witness ==
    /\ ListingSucceeded
    /\ repoTree = MixedRepo
    /\ python_files = <<z_py, Join(d_py, b_py), a_py>>

\* a status of success
Success(status) == status \in 200..299

\* C10: no directory is requested twice; a failed request is the last one, its
\* exception (ValueError for 404, RuntimeError otherwise) leaves every call,
\* main gets no list and ends with the error, never reaching the selection.
C10_AllOrNothing ==
    /\ \A i, j \in 1..Len(requests) : i # j => requests[i].path # requests[j].path
    /\ \A i \in 1..Len(requests) :
          ~Success(requests[i].status)
          => /\ i = Len(requests)
             /\ listExc = (IF requests[i].status = 404 THEN "ValueError" ELSE "RuntimeError")
             /\ stack = <<>>
             /\ python_files = <<>>
             /\ pc \in {"listed", "done"}
             /\ pc = "done" => (exit = "list_error" /\ out = <<"Error while listing files">>)
    /\ listExc # "none"
       => (requests # <<>> /\ ~Success(requests[Len(requests)].status))

\* a request failed below the root, after a Python file had been found, and
\* main has ended
C10_Witness ==
    /\ pc = "done"
    /\ exit = "list_error"
    /\ Len(requests) >= 3
    /\ m_py \in PythonFilesIn(repoTree, DOMAIN repoTree)
    /\ python_files = <<>>

\* the number of "/" in a text
SlashCount(s) == Cardinality({i \in 1..Len(s) : s[i] = "/"})

\* a line has been typed at the repository prompt and the prompt is repeated
RepoRejected == pc = "prompt_repo" /\ inputs > 0

\* prompt_repository_info has returned
RepoAccepted ==
    /\ pc \in {"listing", "listed", "browsing", "explain_prompt", "done", "crashed"}
    /\ exit # "no_token"

\* the message of a rejected line: one for a missing slash, one for an empty side
RejectionMessage(s) ==
    IF SlashCount(s) = 0 THEN <<"Invalid format. Please use 'owner/repo'.">>
    ELSE <<"Invalid format. Owner or repo missing.">>

\* a rejected line leaves no trace: no owner, no call, no request
NothingListed == owner = <<>> /\ repo = <<>> /\ stack = <<>> /\ requests = <<>>

\* exactly one "/", between two non-empty parts
OneSlashTwoParts(s) ==
    SlashCount(s) = 1 /\ Len(s) >= 3 /\ s[1] # "/" /\ s[Len(s)] # "/"

\* a first "/" with text before it and text after it
FirstSlashTwoParts(s) ==
    \E i \in 2..(Len(s) - 1) : s[i] = "/" /\ \A j \in 1..(i - 1) : s[j] # "/"

\* C5 as claimed: the trimmed line is accepted exactly when it holds one "/"
\* between two non-empty parts, which are owner and repo; any other line is
\* rejected with the message of its failure and reaches no listing.
C5_ExactlyOneSlash ==
    /\ RepoAccepted
       => /\ OneSlashTwoParts(repo_full_name)
          /\ repo_full_name = owner \o <<"/">> \o repo
    /\ RepoRejected
       => /\ ~OneSlashTwoParts(repo_full_name)
          /\ out = RejectionMessage(repo_full_name)
          /\ NothingListed

\* C5 as amended: the trimmed line is accepted exactly when it holds a "/"
\* with text before the first "/" and text after it; owner is the text before
\* the first "/", repo all the text after it (further "/" included); any
\* other line is rejected with the message of its failure and reaches no
\* listing.
C5_SplitAtFirstSlash ==
    /\ RepoAccepted
       => /\ FirstSlashTwoParts(repo_full_name)
          /\ repo_full_name = owner \o <<"/">> \o repo
          /\ SlashCount(owner) = 0
          /\ owner # <<>> /\ repo # <<>>
    /\ RepoRejected
       => /\ ~FirstSlashTwoParts(repo_full_name)
          /\ out = RejectionMessage(repo_full_name)
          /\ NothingListed

\* after a rejected line, a line with two "/" has been accepted
C5_Witness ==
    /\ pc = "listing"
    /\ inputs >= 2
    /\ owner = <<"a">>
    /\ repo = <<"b", "/", "c">>

\* the last step called explain_code
ExplainCalled ==
    pc = "browsing" /\ out # <<>> /\ out[1] = "Requesting explanation"

\* a text of whitespace only (the empty text included)
Blank(text) == \A i \in 1..Len(text) : text[i] \in {" ", "\t"}

\* C6: explain_code on blank code returns the fixed sentence without a chat
\* request; on any other code it issues exactly one chat request.
C6_BlankCodeNoRequest ==
    /\ ExplainCalled
       => IF Blank(content)
          THEN net = <<>> /\ explanation = [kind |-> "text", text |-> EmptyFileSentence]
          ELSE net = <<"chat">>
    /\ (\E i \in 1..Len(net) : net[i] = "chat") => (ExplainCalled /\ ~Blank(content))

\* explain_code has been called on a file of whitespace only
C6_Witness ==
    /\ ExplainCalled
    /\ content = <<" ", "\t">>
    /\ net = <<>>
    /\ explanation.text = EmptyFileSentence

\* C8: when the explainer cannot be constructed (no key, or an exception of
\* the constructor) main goes on to the repository prompt with explainer =
\* None; with explainer = None the explanation prompt is never shown and
\* explain_code is never called; the explanation prompt is shown only right
\* after a successful read, with an explainer.
C8_ExplainerOptional ==
    /\ (pc = "prompt_repo" /\ inputs = 0)
       => /\ exit = "running"
          /\ ~Truthy(OPENAI_API_KEY)
             => (explainer = "None" /\ out[1] = "LLM not configured")
          /\ out # <<>> => explainer = "None"
          /\ out = <<>> => explainer = "CodeExplainer"
    /\ explainer = "None"
       => /\ pc # "explain_prompt"
          /\ ~ExplainCalled
          /\ net \in {<<>>, <<"read">>}
          /\ explanation = NoText
    /\ pc = "explain_prompt"
       => /\ explainer = "CodeExplainer"
          /\ Truthy(OPENAI_API_KEY)
          /\ net = <<"read">>
          /\ out = <<"File:", "content">>

\* without an explainer (its constructor raised), a file has been read and
\* printed and the selection prompt is back
C8_Witness ==
    /\ explainer = "None"
    /\ Truthy(OPENAI_API_KEY)
    /\ pc = "browsing"
    /\ net = <<"read">>
    /\ out = <<"File:", "content">>

SessionUnchanged == UNCHANGED <<python_files, owner, repo, explainer>>

\* C9 (steps): a selection whose read fails reports the error, prints no
\* content and goes back to the selection prompt; a successful read prints
\* the content and goes to the explanation prompt, or back when there is no
\* explainer; every answer at the explanation prompt, and every outcome of
\* explain_code, leads back to the selection prompt; the list, owner, repo and
\* explainer stay as they are and main does not end.
C9_Step ==
    /\ (pc = "browsing" /\ net' = <<"read">>)
       => /\ SessionUnchanged
          /\ exit' = "running"
          /\ \/ /\ out' = <<"Error while reading file">>
                /\ pc' = "browsing"
                /\ content' = content
             \/ /\ out' = <<"File:", "content">>
                /\ pc' = IF explainer = "None" THEN "browsing" ELSE "explain_prompt"
    /\ pc = "explain_prompt"
       => /\ SessionUnchanged
          /\ exit' = "running"
          /\ pc' = "browsing"

\* C9: after a valid selection main always comes back to the selection prompt.
C9_BackToBrowsing == [][C9_Step]_vars

\* explain_code raised and the selection prompt is back
C9_Witness ==
    /\ pc = "browsing"
    /\ exit = "running"
    /\ out = <<"Requesting explanation", "Error while getting LLM explanation">>

\* the trimmed line denotes the index of one of n listed files
DenotesIndex(c, n) ==
    /\ c # <<>>
    /\ \A i \in 1..Len(c) : c[i] \in DecimalChars
    /\ DecimalValue(c) \in 1..n

\* C4: at the selection prompt 'q' or 'Q' ends the session, a line denoting k
\* in [1, n] selects the k-th listed path, and every other line is rejected:
\* a message, no read, no error, the same prompt and the same list.
C4_Step ==
    (pc = "browsing" /\ inputs' = inputs + 1)
    => IF choice' \in {<<"q">>, <<"Q">>}
       THEN pc' = "done" /\ exit' = "quit"
       ELSE IF DenotesIndex(choice', Len(python_files))
       THEN /\ selected_path' = python_files[DecimalValue(choice')]
            /\ net' = <<"read">>
            /\ pc' \in {"browsing", "explain_prompt"}
       ELSE /\ pc' = "browsing"
            /\ exit' = "running"
            /\ out' \in { <<"Please enter a valid number or 'q' to quit.">>,
                          <<"Please choose a number between 1 and n.">> }
            /\ net' = <<>>
            /\ UNCHANGED <<python_files, selected_path, content>>

C4_SelectionLoop == [][C4_Step]_vars

\* C7: main never ends through an unhandled exception; it returns after a
\* message, and only because the token is missing (before any prompt or
\* request), the listing raised, the listing was empty, or the user quit.
C7_CleanExit ==
    /\ pc # "crashed"
    /\ pc = "done"
       => /\ exit \in {"no_token", "list_error", "no_files", "quit"}
          /\ out # <<>>
    /\ exit = "no_token" => (inputs = 0 /\ requests = <<>> /\ net = <<>>)
    /\ exit # "running" => pc = "done"

====
